---- MODULE Spec2Model ----
(***************************************************************************)
(* Model of comments.py: the paginated comment fetch (comment_threads and  *)
(* parse_comments), the parallel sentiment step (get_sentiments on a       *)
(* ThreadPoolExecutor), the export (to_csv) and the pipeline (run).        *)
(*                                                                         *)
(* A Comment has 14 fields.  Twelve of them are copied verbatim from the   *)
(* snippet by Comment.from_dict; textDisplay stands for all of them.       *)
(* parentId and commentId are the two fields parse_comments treats         *)
(* specially.  The comment source tags every snippet's textDisplay with    *)
(* the position <<page, item, reply>> it is listed at, so the origin of    *)
(* every record can be read off the record itself.                         *)
(***************************************************************************)
EXTENDS Integers, Sequences, FiniteSets, TLC

VARIABLES
    limit,            \* comment_threads: parameter limit
    pageToken,        \* comment_threads: local pageToken
    comments,         \* comment_threads: local comments (accumulator)
    requests,         \* page tokens of the list() requests issued so far
    responses,        \* responses received so far, in order
    comments_limited, \* comment_threads: returned list (run's comments)
    response,         \* parse_comments: parameter response
    parsed,           \* parse_comments: returned list
    fut,              \* get_sentiments: the futures executor.map created, by index
    queue,            \* the executor's work queue (indices of futures)
    nthreads,         \* number of worker threads the executor has started
    idle,             \* the executor's idle semaphore
    fs,               \* executor.map: futures whose result is still to be yielded
    collected,        \* the list that list(...) is building
    raising,          \* get_sentiments is leaving the with block by an exception
    overtaken,        \* some analyze call finished before an earlier-submitted one
    sentiments,       \* get_sentiments: returned list (run's sentiments)
    chain,            \* the pages of the comment source, as its cursors chain them
    include_sentiment,\* run: parameter include_sentiment
    has_sentiments,   \* to_csv: parameter sentiments is not None
    rows,             \* to_csv: local rows
    file,             \* the output file: whether it exists, and its lines
    error,            \* the exception that ended the call, if any
    pc                \* position of the main thread

fetchVars == <<limit, pageToken, comments, requests, responses, comments_limited>>
parseVars == <<response, parsed>>
poolVars == <<fut, queue, nthreads, idle>>
enrichVars == <<poolVars, fs, collected, raising, overtaken, sentiments>>
inputVars == <<chain, include_sentiment>>
exportVars == <<has_sentiments, rows, file, error>>
vars == <<fetchVars, parseVars, enrichVars, inputVars, exportVars, pc>>

----------------------------------------------------------------------------
(* Bounds of the model *)

MaxPages == 2      \* the cursor chain of the source has at most this many pages
MaxItems == 2      \* thread items on one page
MaxReplies == 2    \* replies listed in one thread item
MaxLimit == 3      \* largest limit passed to comment_threads
MaxComments == 6   \* comments passed to get_sentiments

----------------------------------------------------------------------------
(* Values *)

\* Python's None.  Ids are texts (sequences of code points), so that None
\* compares with them and the export can write them.  A
\* result variable holds None until its function returns; pc tells a result
\* not yet returned from an empty list.
None == << >>
ThreadIds == {<<116, 49>>, <<116, 50>>}   \* ids of top-level comments: "t1", "t2"
Tokens == {"tokA", "tokB"}          \* nextPageToken values
Limits == (-1)..MaxLimit            \* -1 is the default of comment_threads

\* the id the API gives the j-th reply to comment tid: "<tid>.<suffix>"
ReplyId(tid, j) == Append(tid, j)

Min(a, b) == IF a <= b THEN a ELSE b

----------------------------------------------------------------------------
(* class Comment *)

\* what a call yields in place of its value when data[key] finds no key
KeyError == [exception |-> "KeyError"]

\* Comment.from_dict: every field is read from the dict under its own key
from_dict(data) ==
    IF {"textDisplay", "parentId", "commentId"} \subseteq DOMAIN data
    THEN [ textDisplay |-> data.textDisplay,
           parentId    |-> data.parentId,
           commentId   |-> data.commentId ]
    ELSE KeyError

----------------------------------------------------------------------------
(* The comment source: the JSON of one commentThreads().list() response.   *)
(* Item i of page p is tagged <<p, i, 0>>, its j-th reply <<p, i, j>>.     *)

\* a reply resource: its id and its snippet (the snippet carries parentId)
ReplyItem(tag, rid, par) ==
    [ id |-> rid, snippet |-> [textDisplay |-> tag, parentId |-> par] ]

\* a thread item: snippet.topLevelComment, without the key "replies"
ThreadItem(tag, tid) ==
    [ snippet |-> [topLevelComment |-> [id |-> tid, snippet |-> [textDisplay |-> tag]]] ]

\* a thread item with the key "replies"
ThreadItemWithReplies(tag, tid, rs) ==
    [ snippet |-> ThreadItem(tag, tid).snippet, replies |-> [comments |-> rs] ]

\* the JSON of thread t listed as item i of page p.  t gives the ids:
\* t.id, whether the key "replies" is present, and each reply's id and parent
JsonItem(p, i, t) ==
    IF t.hasReplies
    THEN ThreadItemWithReplies(<<p, i, 0>>, t.id,
            [ j \in 1..Len(t.replies) |->
                ReplyItem(<<p, i, j>>, t.replies[j].id, t.replies[j].parentId) ])
    ELSE ThreadItem(<<p, i, 0>>, t.id)

JsonItems(p, ts) == [ i \in 1..Len(ts) |-> JsonItem(p, i, ts[i]) ]

\* a thread without the key "replies"
Unreplied(tid) == [id |-> tid, hasReplies |-> FALSE, replies |-> << >>]

\* the threads the API lists: a thread's k replies have ids of their own
\* and the thread's top-level comment as their parent
ApiThreads ==
    { Unreplied(tid) : tid \in ThreadIds }
    \cup
    { [ id |-> tid, hasReplies |-> TRUE,
        replies |-> [ j \in 1..k |-> [id |-> ReplyId(tid, j), parentId |-> tid] ] ] :
        tid \in ThreadIds, k \in 0..MaxReplies }

\* threads of any JSON of the right shape: the threads with replies are
\* comment t1's, the ids and the parents of their replies are free
ReplyIds == { ReplyId(tid, 1) : tid \in ThreadIds }
RepliedId == <<116, 49>>
AnyThreads ==
    { Unreplied(tid) : tid \in ThreadIds }
    \cup
    { [ id |-> RepliedId, hasReplies |-> TRUE, replies |-> rs ] :
        rs \in UNION { [1..k -> [id : ReplyIds, parentId : ThreadIds]] : k \in 0..MaxReplies } }

\* the responses the API may give to the p-th request; the last page of the
\* cursor chain carries no nextPageToken
Responses(p) ==
    LET lists == UNION { [1..k -> ApiThreads] : k \in 0..MaxItems }
    IN  { [items |-> JsonItems(p, ts)] : ts \in lists }
        \cup
        IF p < MaxPages
        THEN { [items |-> JsonItems(p, ts), nextPageToken |-> t] :
                 ts \in lists, t \in Tokens }
        ELSE {}

\* Responses, tabulated by request number
ResponsesAt == [p \in 1..MaxPages |-> Responses(p)]

----------------------------------------------------------------------------
(* parse_comments *)

\* parse_item with the reply's parentId synthesized from the thread
parse_item_SynthParent(res) ==
    IF "replies" \in DOMAIN res
    THEN [ j \in 1..Len(res.replies.comments) |->
             LET reply == res.replies.comments[j]
                 comment == ("commentId" :> reply.id)
                            @@ ("parentId" :> res.snippet.topLevelComment.id)
                            @@ reply.snippet
             IN  from_dict(comment) ]
    ELSE LET top == res.snippet.topLevelComment
             snippet == ("parentId" :> None) @@ ("commentId" :> top.id) @@ top.snippet
         IN  << from_dict(snippet) >>

\* parse_item with a top-level comment made its own parent
parse_item_SelfParent(res) ==
    IF "replies" \in DOMAIN res
    THEN [ j \in 1..Len(res.replies.comments) |->
             LET reply == res.replies.comments[j]
                 comment == ("commentId" :> reply.id) @@ reply.snippet
             IN  from_dict(comment) ]
    ELSE LET top == res.snippet.topLevelComment
             snippet == ("parentId" :> top.id) @@ ("commentId" :> top.id) @@ top.snippet
         IN  << from_dict(snippet) >>

\* parse_item with every reply given the thread's id as its commentId
parse_item_ThreadId(res) ==
    IF "replies" \in DOMAIN res
    THEN [ j \in 1..Len(res.replies.comments) |->
             LET reply == res.replies.comments[j]
                 comment == ("commentId" :> res.snippet.topLevelComment.id) @@ reply.snippet
             IN  from_dict(comment) ]
    ELSE LET top == res.snippet.topLevelComment
             snippet == ("parentId" :> None) @@ ("commentId" :> top.id) @@ top.snippet
         IN  << from_dict(snippet) >>

\* the records one thread item contributes
parse_item(res) ==
    IF "replies" \in DOMAIN res
    THEN [ j \in 1..Len(res.replies.comments) |->
             LET reply == res.replies.comments[j]
                 comment == ("commentId" :> reply.id) @@ reply.snippet
             IN  from_dict(comment) ]
    ELSE LET top == res.snippet.topLevelComment
             snippet == ("parentId" :> None) @@ ("commentId" :> top.id) @@ top.snippet
         IN  << from_dict(snippet) >>

RECURSIVE parse_items(_, _)
parse_items(items, n) ==
    IF n = 0 THEN << >>
    ELSE parse_items(items, n - 1) \o parse_item(items[n])

parse_comments(resp) == parse_items(resp.items, Len(resp.items))

\* a malformed item passed over instead of ending the call
parse_raises_Skip(resp) == FALSE

\* parse_comments raises: some from_dict call in the loop raised KeyError
parse_raises(resp) ==
    \E k \in 1..Len(parse_comments(resp)) : parse_comments(resp)[k] = KeyError

----------------------------------------------------------------------------
(* comment_threads *)

\* the slice left out
Slice_NoTruncate(cs, lim) == cs

\* comments[:limit] if limit > 0 else comments
Slice(cs, lim) == IF lim > 0 THEN SubSeq(cs, 1, Min(lim, Len(cs))) ELSE cs

\* the first exit taken one comment late
LimitReached_Strict(cs, lim) == lim > 0 /\ Len(cs) > lim

\* the first exit without its test of limit > 0
LimitReached_NoGuard(cs, lim) == Len(cs) >= lim

\* the loop's first exit: enough comments have been accumulated
LimitReached(cs, lim) == lim > 0 /\ Len(cs) >= lim

\* the page's comments put in front of the accumulated ones
Extend_Prepend(cs, resp) == parse_comments(resp) \o cs

\* comments.extend(parse_comments(response))
Extend(cs, resp) == cs \o parse_comments(resp)

\* request = youtube.commentThreads().list(..., pageToken=pageToken)
Request ==
    /\ pc = "request"
    /\ requests' = Append(requests, pageToken)
    /\ pc' = "execute"
    /\ UNCHANGED <<limit, pageToken, comments, responses, comments_limited>>
    /\ UNCHANGED <<parseVars, enrichVars, inputVars, exportVars>>

\* the page token never replaced
NextToken_Stale(resp, tok) == tok

\* pageToken = response["nextPageToken"]
NextToken(resp, tok) == resp.nextPageToken

\* the loop left after its first page
HasNext_Never(resp) == FALSE

\* the loop's second exit is not taken: "nextPageToken" in response
HasNext(resp) == "nextPageToken" \in DOMAIN resp

\* response = request.execute(), and the rest of the loop body, for a
\* source that may answer the request with any response of R; on break, the
\* slice and the return; a KeyError raised in parse_comments leaves the
\* function
ExecuteFrom(R) ==
    /\ pc = "execute"
    /\ \E resp \in R :
         /\ responses' = Append(responses, resp)
         /\ IF parse_raises(resp)
            THEN /\ error' = "KeyError"
                 /\ pc' = "fetch_raised"
                 /\ UNCHANGED <<pageToken, comments, comments_limited>>
            ELSE LET cs == Extend(comments, resp) IN
                 /\ comments' = cs
                 /\ UNCHANGED error
                 /\ IF LimitReached(cs, limit)
                    THEN /\ comments_limited' = Slice(cs, limit)
                         /\ pc' = "fetched"
                         /\ UNCHANGED pageToken
                    ELSE IF HasNext(resp)
                    THEN /\ pageToken' = NextToken(resp, pageToken)
                         /\ pc' = "request"
                         /\ UNCHANGED comments_limited
                    ELSE /\ comments_limited' = Slice(cs, limit)
                         /\ pc' = "fetched"
                         /\ UNCHANGED pageToken
    /\ UNCHANGED <<limit, requests>>
    /\ UNCHANGED <<parseVars, enrichVars, inputVars, has_sentiments, rows, file>>

\* the loop body against the well-formed pages of the API
Execute == ExecuteFrom(ResponsesAt[Len(responses) + 1])

NoParse == /\ response = None
           /\ parsed = None

\* the output file before run: no such file, and nothing written
NoFile == [exists |-> FALSE, lines |-> << >>]

\* before to_csv is called
NoExport ==
    /\ has_sentiments = FALSE
    /\ rows = << >>
    /\ file = NoFile
    /\ error = "none"

\* a specification that models neither the source's chain nor run's flag
NoInput ==
    /\ chain = << >>
    /\ include_sentiment = FALSE

\* before get_sentiments is called: no executor, no futures
NoEnrich ==
    /\ fut = << >>
    /\ queue = << >>
    /\ nthreads = 0
    /\ idle = 0
    /\ fs = << >>
    /\ collected = << >>
    /\ raising = FALSE
    /\ overtaken = FALSE
    /\ sentiments = None

Init ==
    /\ limit \in Limits
    /\ pageToken = None
    /\ comments = << >>
    /\ requests = << >>
    /\ responses = << >>
    /\ comments_limited = None
    /\ NoParse
    /\ NoEnrich
    /\ NoInput
    /\ NoExport
    /\ pc = "request"

Next == Request \/ Execute

Spec == Init /\ [][Next]_vars

----------------------------------------------------------------------------
(* comment_threads against a source that is one chain of pages: a request  *)
(* without a page token is answered with the first page, a request with    *)
(* the token a page carried is answered with the page after it.            *)

MaxChain == 3      \* pages of the chain

\* the cursor that stands for page k
ChainToken(k) == <<"page", k>>

\* the thread lists of a page: up to MaxItems threads without replies, or
\* one thread whose replies collection is empty, which emits no record
ChainLists ==
    { [ i \in 1..k |-> Unreplied(RepliedId) ] : k \in 0..MaxItems }
    \cup { << [id |-> RepliedId, hasReplies |-> TRUE, replies |-> << >>] >> }

\* page p of a chain of n pages; the last carries no nextPageToken
ChainPage(p, n, ts) ==
    IF p < n
    THEN [items |-> JsonItems(p, ts), nextPageToken |-> ChainToken(p + 1)]
    ELSE [items |-> JsonItems(p, ts)]

Chains ==
    UNION { { [ p \in 1..n |-> ChainPage(p, n, f[p]) ] : f \in [1..n -> ChainLists] } :
              n \in 1..MaxChain }

\* the source's answer to a request with page token tok
Answer(tok) == IF tok = None THEN chain[1] ELSE chain[tok[2]]

ExecuteChain == ExecuteFrom({ Answer(requests[Len(requests)]) })

InitChain ==
    /\ chain \in Chains
    /\ include_sentiment = FALSE
    /\ limit \in Limits
    /\ pageToken = None
    /\ comments = << >>
    /\ requests = << >>
    /\ responses = << >>
    /\ comments_limited = None
    /\ NoParse
    /\ NoEnrich
    /\ NoExport
    /\ pc = "request"

NextChain == Request \/ ExecuteChain

SpecChain == InitChain /\ [][NextChain]_vars

----------------------------------------------------------------------------
(* parse_comments applied to any one response of the right shape *)

Parse ==
    /\ pc = "parse"
    /\ parsed' = parse_comments(response)
    /\ pc' = "parsed"
    /\ UNCHANGED <<fetchVars, enrichVars, inputVars, exportVars, response>>

InitParse ==
    /\ \E k \in 0..MaxItems : \E ts \in [1..k -> AnyThreads] :
          response = [items |-> JsonItems(1, ts)]
    /\ parsed = None
    /\ limit = -1
    /\ pageToken = None
    /\ comments = << >>
    /\ requests = << >>
    /\ responses = << >>
    /\ comments_limited = None
    /\ NoEnrich
    /\ NoInput
    /\ NoExport
    /\ pc = "parse"

NextParse == Parse

SpecParse == InitParse /\ [][NextParse]_vars

----------------------------------------------------------------------------
(* get_sentiment and get_sentiments.  executor.map submits one call per    *)
(* comment, in input order, and returns an iterator over the futures in    *)
(* submission order; list(...) consumes it; leaving the with block joins    *)
(* the worker threads.                                                     *)

MaxWorkers == 5                    \* ThreadPoolExecutor(max_workers=5)

\* textDisplay values passed to get_sentiments: each text encodes a number
Texts == { <<n>> : n \in 1..MaxComments }

\* the text read as a number, its code points as digits
RECURSIVE Number(_)
Number(text) ==
    IF text = << >> THEN 0
    ELSE 10 * Number(SubSeq(text, 1, Len(text) - 1)) + text[Len(text)]

\* get_sentiment: the document sentiment the language API computes for the
\* text, as Sentiment(score=sentiment.score, magnitude=sentiment.magnitude);
\* the API is a function of the text, and different texts score differently
get_sentiment(text) == [score |-> 0 - text[1], magnitude |-> Number(text)]

Running == { i \in 1..Len(fut) : fut[i].state = "RUNNING" }

\* worker threads blocked on the work queue
FreeWorkers == nthreads - Cardinality(Running)

\* a thread pool that starts a thread for every submitted call
MaySpawn_Unbounded(n) == TRUE

\* submit starts a new worker thread only below max_workers
MaySpawn(n) == n < MaxWorkers

\* results taken from whichever future is ready, as as_completed would
Poppable_Any(futures) == { futures[k] : k \in 1..Len(futures) }

\* the future the result iterator waits for next: the earliest submitted
\* of those not yet yielded (fs.reverse(); fs.pop())
Poppable(futures) == IF futures = << >> THEN {} ELSE { Head(futures) }

Remove(futures, j) == SelectSeq(futures, LAMBDA x : x # j)

\* future.cancel() on every future left in fs: a pending one is cancelled, a
\* running or finished one is not
CancelAll(f, left) ==
    [ i \in 1..Len(f) |->
        IF i \in left /\ f[i].state = "PENDING"
        THEN [f[i] EXCEPT !.state = "CANCELLED"]
        ELSE f[i] ]

\* executor.map: self.submit(fn, comment) for the next comment
Submit ==
    /\ pc = "map"
    /\ Len(fut) < Len(comments_limited)
    /\ LET i == Len(fut) + 1 IN
       /\ fut' = Append(fut, [state |-> "PENDING", result |-> None, failed |-> FALSE])
       /\ queue' = Append(queue, i)
       /\ fs' = Append(fs, i)
    /\ IF idle > 0
       THEN idle' = idle - 1 /\ UNCHANGED nthreads
       ELSE /\ nthreads' = IF MaySpawn(nthreads) THEN nthreads + 1 ELSE nthreads
            /\ UNCHANGED idle
    /\ UNCHANGED <<fetchVars, parseVars, collected, raising, overtaken, sentiments, pc>>
    /\ UNCHANGED <<inputVars, exportVars>>

\* a worker thread takes the next work item; a cancelled one is dropped, any
\* other starts running get_sentiment
Start ==
    /\ queue # << >>
    /\ FreeWorkers > 0
    /\ LET i == Head(queue) IN
       IF fut[i].state = "CANCELLED"
       THEN idle' = idle + 1 /\ UNCHANGED fut
       ELSE fut' = [fut EXCEPT ![i].state = "RUNNING"] /\ UNCHANGED idle
    /\ queue' = Tail(queue)
    /\ UNCHANGED <<fetchVars, parseVars, nthreads, fs, collected, raising, overtaken,
                   sentiments, pc>>
    /\ UNCHANGED <<inputVars, exportVars>>

\* the analyze call of comment i returns, or raises
Finish(i, ok) ==
    /\ i \in Running
    /\ fut' = [fut EXCEPT ![i] =
                 IF ok
                 THEN [state |-> "FINISHED",
                       result |-> get_sentiment(comments_limited[i].textDisplay),
                       failed |-> FALSE]
                 ELSE [state |-> "FINISHED", result |-> None, failed |-> TRUE]]
    /\ idle' = idle + 1
    /\ overtaken' = (overtaken \/ \E k \in 1..(i - 1) : fut[k].state # "FINISHED")
    /\ UNCHANGED <<fetchVars, parseVars, queue, nthreads, fs, collected, raising,
                   sentiments, pc>>
    /\ UNCHANGED <<inputVars, exportVars>>

\* a failed call's exception taken for a result
Failed_Ignored(f) == FALSE

\* future.result() raises the exception the call raised
Failed(f) == f.failed

\* list(...) takes the next result from the iterator; a failed call's
\* exception leaves the iterator, which cancels the futures left
Yield ==
    /\ pc = "map"
    /\ Len(fut) = Len(comments_limited)
    /\ \E j \in Poppable(fs) :
         /\ fut[j].state = "FINISHED"
         /\ fs' = Remove(fs, j)
         /\ IF Failed(fut[j])
            THEN /\ fut' = CancelAll(fut, { fs'[k] : k \in 1..Len(fs') })
                 /\ raising' = TRUE
                 /\ pc' = "shutdown"
                 /\ UNCHANGED collected
            ELSE /\ collected' = Append(collected, fut[j].result)
                 /\ UNCHANGED <<fut, raising, pc>>
    /\ UNCHANGED <<fetchVars, parseVars, queue, nthreads, idle, overtaken, sentiments>>
    /\ UNCHANGED <<inputVars, exportVars>>

\* the iterator is exhausted: list(...) is complete
ListDone ==
    /\ pc = "map"
    /\ Len(fut) = Len(comments_limited)
    /\ fs = << >>
    /\ pc' = "shutdown"
    /\ UNCHANGED <<fetchVars, parseVars, poolVars, fs, collected, raising, overtaken,
                   sentiments>>
    /\ UNCHANGED <<inputVars, exportVars>>

\* shutdown that does not wait for the workers
Joined_NoWait == TRUE

\* t.join() has returned for every worker thread: the workers end once the
\* queue is drained and no call is running
Joined == queue = << >> /\ Running = {}

\* leaving the with block: executor.shutdown(wait=True) returns when the
\* workers have drained the queue and ended; then the return, or the raise
Shutdown ==
    /\ pc = "shutdown"
    /\ Joined
    /\ IF raising
       THEN pc' = "raised" /\ UNCHANGED <<sentiments, has_sentiments>>
       ELSE pc' = "returned" /\ sentiments' = collected /\ has_sentiments' = TRUE
    /\ UNCHANGED <<fetchVars, parseVars, poolVars, fs, collected, raising, overtaken>>
    /\ UNCHANGED <<inputVars, rows, file, error>>

\* the comment lists get_sentiments is called with: n comments whose texts
\* are all different, in ascending or in descending order of their numbers
EnrichInputs ==
    UNION { { [ k \in 1..n |->
                  [ textDisplay |-> IF up THEN <<k>> ELSE <<n + 1 - k>>,
                    parentId |-> None,
                    commentId |-> <<99, k>> ] ] : up \in BOOLEAN } : n \in 0..MaxComments }

InitEnrich ==
    /\ comments_limited \in EnrichInputs
    /\ limit = -1
    /\ pageToken = None
    /\ comments = << >>
    /\ requests = << >>
    /\ responses = << >>
    /\ NoParse
    /\ NoEnrich
    /\ NoInput
    /\ NoExport
    /\ pc = "map"

NextEnrich ==
    \/ Submit
    \/ Start
    \/ \E i \in 1..MaxComments, ok \in BOOLEAN : Finish(i, ok)
    \/ Yield
    \/ ListDone
    \/ Shutdown

SpecEnrich == InitEnrich /\ [][NextEnrich]_vars

----------------------------------------------------------------------------
(* to_csv.  A text is the sequence of its characters' code points (the     *)
(* position tags of the source are texts of control characters).  A line   *)
(* of the file is the sequence of the fields the writer wrote, which the   *)
(* file holds joined by the delimiter.                                     *)

MaxRows == 2       \* comments passed to to_csv
MaxTextLen == 2    \* characters of a textDisplay passed to to_csv

Tab == 9           \* delimiter = "\t"
Space == 32        \* " "
Quote == 34        \* the writer's quotechar, '"'

NoError == "none"

\* the Comment fields, in declaration order
Fields == <<"textDisplay", "parentId", "commentId">>

\* the text left as it is
Replace_Nothing(text) == text

\* comment.textDisplay.replace(delimiter, " ")
Replace(text) == [ k \in 1..Len(text) |-> IF text[k] = Tab THEN Space ELSE text[k] ]

\* Comment.to_dict: a copy of the object's __dict__
to_dict(c) == c

\* to_dict returning the object's own __dict__: the assignment to the row
\* is an assignment to the comment
AfterRowAssign_Shared(c, text) == [c EXCEPT !.textDisplay = text]

\* the comment after row["textDisplay"] = text: the row is a copy, the
\* comment keeps its text
AfterRowAssign(c, text) == c

\* the test of "if sentiments:": None and the empty list are both false
Truthy(x) == x # << >>

\* one pass of the loop: the row of comment i
Row(c, ss, i) ==
    LET row == [to_dict(c) EXCEPT !.textDisplay = Replace(c.textDisplay)]
    IN  IF Truthy(ss)
        THEN row @@ [score |-> ss[i].score, magnitude |-> ss[i].magnitude]
        ELSE row

\* row.keys(): the fields, then the keys the loop added, in that order
Keys(row) ==
    IF "score" \in DOMAIN row THEN Fields \o <<"score", "magnitude">> ELSE Fields

\* the digits of a natural number
RECURSIVE Digits(_)
Digits(n) == IF n < 10 THEN <<48 + n>> ELSE Append(Digits(n \div 10), 48 + (n % 10))

\* str(n) of an integer
Str(n) == IF n < 0 THEN <<45>> \o Digits(0 - n) ELSE Digits(n)

\* the text of a value: str of a number, the string itself, "" for None
FieldText(name, value) == IF name \in {"score", "magnitude"} THEN Str(value) ELSE value

RECURSIVE DoubleQuotes(_)
DoubleQuotes(text) ==
    IF text = << >> THEN << >>
    ELSE (IF Head(text) = Quote THEN <<Quote, Quote>> ELSE <<Head(text)>>)
         \o DoubleQuotes(Tail(text))

\* the writer (QUOTE_MINIMAL): a field that holds the delimiter, the
\* quotechar or a line end is written between quotechars
WriteField(text) ==
    IF \E k \in 1..Len(text) : text[k] \in {Tab, Quote, 10, 13}
    THEN <<Quote>> \o DoubleQuotes(text) \o <<Quote>>
    ELSE text

\* writer.writerow(row): the fields of the row, in the order of fieldnames
WriteRowLine(row, fieldnames) ==
    [ k \in 1..Len(fieldnames) |-> WriteField(FieldText(fieldnames[k], row[fieldnames[k]])) ]

\* writerows stopping one row short
AllWritten_Short(lines, rs) == Len(lines) >= Len(rs)

\* writerows has written every row after the header
AllWritten(lines, rs) == Len(lines) = Len(rs) + 1

\* the emptiness test left out
NoRows_Unchecked(rs) == FALSE

\* if len(rows) == 0
NoRows(rs) == Len(rs) = 0

\* for i, comment in enumerate(comments): one pass; sentiments[i] raises
\* IndexError when the list is too short
BuildRow ==
    /\ pc = "to_csv"
    /\ Len(rows) < Len(comments_limited)
    /\ LET i == Len(rows) + 1
           c == comments_limited[i]
       IN  IF Truthy(sentiments) /\ i > Len(sentiments)
           THEN /\ error' = "IndexError"
                /\ pc' = "export_raised"
                /\ UNCHANGED <<rows, comments_limited>>
           ELSE /\ rows' = Append(rows, Row(c, sentiments, i))
                /\ comments_limited' =
                     [comments_limited EXCEPT ![i] = AfterRowAssign(c, Replace(c.textDisplay))]
                /\ UNCHANGED <<error, pc>>
    /\ UNCHANGED <<limit, pageToken, comments, requests, responses>>
    /\ UNCHANGED <<parseVars, enrichVars, inputVars, has_sentiments, file>>

\* after the loop: the ValueError of the emptiness test, or first_row =
\* rows[0], which raises IndexError on an empty list
RowsBuilt ==
    /\ pc = "to_csv"
    /\ Len(rows) = Len(comments_limited)
    /\ IF NoRows(rows)
       THEN error' = "ValueError" /\ pc' = "export_raised"
       ELSE IF Len(rows) = 0
       THEN error' = "IndexError" /\ pc' = "export_raised"
       ELSE pc' = "open" /\ UNCHANGED error
    /\ UNCHANGED <<fetchVars, parseVars, enrichVars, inputVars, has_sentiments, rows, file>>

\* open(filepath, "w"): the file is created, or truncated
Open ==
    /\ pc = "open"
    /\ file' = [exists |-> TRUE, lines |-> << >>]
    /\ pc' = "writeheader"
    /\ UNCHANGED <<fetchVars, parseVars, enrichVars, inputVars, has_sentiments, rows, error>>

\* writer.writeheader(), with fieldnames=first_row.keys()
WriteHeader ==
    /\ pc = "writeheader"
    /\ file' = [file EXCEPT !.lines = <<Keys(rows[1])>>]
    /\ pc' = "writerows"
    /\ UNCHANGED <<fetchVars, parseVars, enrichVars, inputVars, has_sentiments, rows, error>>

\* writer.writerows(rows): the next row
WriteRow ==
    /\ pc = "writerows"
    /\ ~AllWritten(file.lines, rows)
    /\ file' = [file EXCEPT !.lines =
                  Append(@, WriteRowLine(rows[Len(file.lines)], Keys(rows[1])))]
    /\ UNCHANGED <<fetchVars, parseVars, enrichVars, inputVars, has_sentiments, rows, error, pc>>

\* the with block is left: the file is closed, to_csv returns
Close ==
    /\ pc = "writerows"
    /\ AllWritten(file.lines, rows)
    /\ pc' = "exported"
    /\ UNCHANGED <<fetchVars, parseVars, enrichVars, inputVars, exportVars>>

\* the texts to_csv is given: letters x and tabs
ExportTexts == UNION { [1..n -> {Tab, 120}] : n \in 0..MaxTextLen }

\* the ids to_csv is given: one without a tab, one with
ExportIds == { <<99>>, <<99, Tab>> }

ExportComments ==
    UNION { [1..n -> [textDisplay : ExportTexts, parentId : {None}, commentId : ExportIds]] :
              n \in 0..MaxRows }

\* the sentiments to_csv is given: a list shorter than, as long as or
\* longer than the comments; the k-th differs from all others
ExportSentiments == { [ k \in 1..m |-> get_sentiment(<<k>>) ] : m \in 0..(MaxRows + 1) }

\* a file left by an earlier run
OldFile == [exists |-> TRUE, lines |-> << <<"old">> >>]

InitExport ==
    /\ comments_limited \in ExportComments
    /\ has_sentiments \in BOOLEAN
    /\ sentiments \in (IF has_sentiments THEN ExportSentiments ELSE {None})
    /\ file \in {NoFile, OldFile}
    /\ rows = << >>
    /\ error = NoError
    /\ limit = -1
    /\ pageToken = None
    /\ comments = << >>
    /\ requests = << >>
    /\ responses = << >>
    /\ NoParse
    /\ fut = << >>
    /\ queue = << >>
    /\ nthreads = 0
    /\ idle = 0
    /\ fs = << >>
    /\ collected = << >>
    /\ raising = FALSE
    /\ overtaken = FALSE
    /\ NoInput
    /\ pc = "to_csv"

NextExport ==
    \/ BuildRow
    \/ RowsBuilt
    \/ Open
    \/ WriteHeader
    \/ WriteRow
    \/ Close

SpecExport == InitExport /\ [][NextExport]_vars

----------------------------------------------------------------------------
(* run: the fetch, then the sentiments when asked for, then the export.    *)
(* The source of run lists threads of comment t1, with or without one      *)
(* reply, and may list a comment whose snippet lacks textDisplay.          *)

\* a snippet without the key textDisplay (it has the text as textOriginal)
Malformed(snippet) ==
    [ k \in (DOMAIN snippet \ {"textDisplay"}) \cup {"textOriginal"} |->
        IF k = "textOriginal" THEN snippet.textDisplay ELSE snippet[k] ]

\* thread item res with a malformed top-level comment, or a malformed reply
BreakTop(res) == [res EXCEPT !.snippet.topLevelComment.snippet = Malformed(@)]
BreakReply(res, j) == [res EXCEPT !.replies.comments[j].snippet = Malformed(@)]

\* the thread of comment t1 with its one reply
Replied1 ==
    [ id |-> RepliedId, hasReplies |-> TRUE,
      replies |-> << [id |-> ReplyId(RepliedId, 1), parentId |-> RepliedId] >> ]

RunKinds == {"thread", "replied", "thread_broken", "replied_top_broken", "reply_broken"}

RunItem(p, i, kind) ==
    CASE kind = "thread"             -> JsonItem(p, i, Unreplied(RepliedId))
      [] kind = "replied"            -> JsonItem(p, i, Replied1)
      [] kind = "thread_broken"      -> BreakTop(JsonItem(p, i, Unreplied(RepliedId)))
      [] kind = "replied_top_broken" -> BreakTop(JsonItem(p, i, Replied1))
      [] kind = "reply_broken"       -> BreakReply(JsonItem(p, i, Replied1), 1)

\* the responses the source of run may give to the p-th request
RunResponses(p) ==
    LET lists == UNION { { [ i \in 1..k |-> RunItem(p, i, f[i]) ] : f \in [1..k -> RunKinds] } :
                           k \in 0..MaxItems }
    IN  { [items |-> its] : its \in lists }
        \cup
        IF p < MaxPages
        THEN { [items |-> its, nextPageToken |-> "tokA"] : its \in lists }
        ELSE {}

RunResponsesAt == [p \in 1..MaxPages |-> RunResponses(p)]

ExecuteRun == ExecuteFrom(RunResponsesAt[Len(responses) + 1])

\* if include_sentiment: ... else: sentiments = None
Branch ==
    /\ pc = "fetched"
    /\ pc' = IF include_sentiment THEN "map" ELSE "to_csv"
    /\ UNCHANGED <<fetchVars, parseVars, enrichVars, inputVars, exportVars>>

\* get_sentiments has returned: to_csv(output, comments, sentiments)
CallToCsv ==
    /\ pc = "returned"
    /\ pc' = "to_csv"
    /\ UNCHANGED <<fetchVars, parseVars, enrichVars, inputVars, exportVars>>

\* the limits run is called with: positive, as its default of 100 is
RunLimits == 1..MaxLimit

InitRun ==
    /\ limit \in RunLimits
    /\ include_sentiment \in BOOLEAN
    /\ chain = << >>
    /\ pageToken = None
    /\ comments = << >>
    /\ requests = << >>
    /\ responses = << >>
    /\ comments_limited = None
    /\ NoParse
    /\ NoEnrich
    /\ NoExport
    /\ pc = "request"

NextRun ==
    \/ Request
    \/ ExecuteRun
    \/ Branch
    \/ Submit
    \/ Start
    \/ \E i \in 1..MaxComments, ok \in BOOLEAN : Finish(i, ok)
    \/ Yield
    \/ ListDone
    \/ Shutdown
    \/ CallToCsv
    \/ NextExport

SpecRun == InitRun /\ [][NextRun]_vars

----------------------------------------------------------------------------
(* What the source listed, read off the responses themselves *)

\* the number of comments thread item res lists for emission: its replies
\* when it has the key "replies", else its one top-level comment
ItemEmits(res) ==
    IF "replies" \in DOMAIN res THEN Len(res.replies.comments) ELSE 1

RECURSIVE SumEmits(_, _)
SumEmits(items, n) == IF n = 0 THEN 0 ELSE SumEmits(items, n - 1) + ItemEmits(items[n])

PageEmits(resp) == SumEmits(resp.items, Len(resp.items))

\* the number of records emitted from the first n responses
RECURSIVE EmittedUpTo(_)
EmittedUpTo(n) == IF n = 0 THEN 0 ELSE EmittedUpTo(n - 1) + PageEmits(responses[n])

Emitted == EmittedUpTo(Len(responses))

\* the tags <<page, item, reply>> of the comments the responses list for emission
EmittedTags ==
    { t \in (1..Len(responses)) \X (1..MaxItems) \X (0..MaxReplies) :
        /\ t[2] <= Len(responses[t[1]].items)
        /\ LET res == responses[t[1]].items[t[2]]
           IN  IF "replies" \in DOMAIN res
               THEN t[3] \in 1..Len(res.replies.comments)
               ELSE t[3] = 0 }

\* the id the source gives the comment tagged t
IdAt(t) ==
    LET res == responses[t[1]].items[t[2]]
    IN  IF t[3] = 0 THEN res.snippet.topLevelComment.id
        ELSE res.replies.comments[t[3]].id

Range(f) == { f[k] : k \in DOMAIN f }

Returned == pc = "fetched"

LastResponse == responses[Len(responses)]

\* tag a precedes tag b in listing order
LexLess(a, b) ==
    \/ a[1] < b[1]
    \/ a[1] = b[1] /\ a[2] < b[2]
    \/ a[1] = b[1] /\ a[2] = b[2] /\ a[3] < b[3]

----------------------------------------------------------------------------
(* Claims about comment_threads *)

\* C2: the returned list has as many records as the fetched pages emitted,
\* cut to exactly limit when limit > 0 and at least limit were emitted; with
\* limit > 0 it never has more than limit records.
C2_FetchLength ==
    Returned =>
        /\ Len(comments_limited) =
              IF limit > 0 /\ Emitted >= limit THEN limit ELSE Emitted
        /\ limit > 0 => Len(comments_limited) <= limit

\* a page overshot the limit and its excess was dropped
C2_Witness ==
    /\ Returned
    /\ limit > 0
    /\ Emitted > limit
    /\ Len(comments_limited) = limit

\* C3: with limit > 0, no page request is issued once the records
\* accumulated from the pages received so far number limit or more, even
\* when the last response carries a nextPageToken.
C3_EarlyStop ==
    limit > 0 =>
        /\ \A r \in 2..Len(requests) : EmittedUpTo(r - 1) < limit
        /\ (pc = "request" /\ Len(responses) > 0) => Emitted < limit
        /\ (Returned /\ Emitted >= limit) =>
              /\ Len(requests) = Len(responses)
              /\ \A k \in 1..Len(comments_limited) :
                    comments_limited[k].textDisplay[1] <= Len(responses)

\* the fetch stopped at page 1 although page 1 carried a nextPageToken, and
\* returned records of page 1 only
C3_Witness ==
    /\ Returned
    /\ limit > 0
    /\ Len(requests) = 1
    /\ "nextPageToken" \in DOMAIN LastResponse
    /\ Emitted > limit
    /\ \A k \in 1..Len(comments_limited) : comments_limited[k].textDisplay[1] = 1

\* C4: with limit <= 0 the fetch ends only at a response without
\* nextPageToken, every earlier response carried one, and the returned list
\* holds every record the fetched pages emitted, none cut.
C4_Unlimited ==
    limit <= 0 =>
        /\ \A n \in 1..Len(responses) - 1 : "nextPageToken" \in DOMAIN responses[n]
        /\ pc = "request" /\ Len(responses) > 0 =>
              "nextPageToken" \in DOMAIN LastResponse
        /\ Returned =>
              /\ "nextPageToken" \notin DOMAIN LastResponse
              /\ Len(comments_limited) = Emitted
              /\ { c.textDisplay : c \in Range(comments_limited) } = EmittedTags

\* an unlimited fetch (limit = 0) went through the whole cursor chain
C4_Witness ==
    /\ Returned
    /\ limit = 0
    /\ Len(responses) = MaxPages
    /\ Len(comments_limited) > MaxLimit

\* C7: every returned record with a non-null parentId has a record in the
\* same returned list whose commentId is that parentId.
C7_ReferentialPresence ==
    Returned =>
        \A c \in Range(comments_limited) :
            c.parentId # None =>
                \E d \in Range(comments_limited) : d.commentId = c.parentId

SourceIdsDistinct ==
    \A a, b \in EmittedTags : a # b => IdAt(a) # IdAt(b)

C9_FetchOrder ==
    Returned =>
        \A k, m \in 1..Len(comments_limited) :
            k < m <=> LexLess(comments_limited[k].textDisplay,
                              comments_limited[m].textDisplay)

\* records of two pages, of two items of one page and two replies of one
\* thread were returned
C9_Witness ==
    /\ Returned
    /\ \E k, m \in 1..Len(comments_limited) :
          comments_limited[k].textDisplay[1] # comments_limited[m].textDisplay[1]
    /\ \E k, m \in 1..Len(comments_limited) :
          /\ comments_limited[k].textDisplay[1] = comments_limited[m].textDisplay[1]
          /\ comments_limited[k].textDisplay[2] # comments_limited[m].textDisplay[2]
    /\ \E k, m \in 1..Len(comments_limited) :
          /\ comments_limited[k].textDisplay[1] = comments_limited[m].textDisplay[1]
          /\ comments_limited[k].textDisplay[2] = comments_limited[m].textDisplay[2]
          /\ comments_limited[k].textDisplay[3] # comments_limited[m].textDisplay[3]

----------------------------------------------------------------------------
(* Claims about parse_comments *)

WasParsed == pc = "parsed"

\* the records of parsed that come from item i of the response
RecordsOf(i) == { k \in 1..Len(parsed) : parsed[k].textDisplay[2] = i }

ItemsWithReplies == { i \in 1..Len(response.items) : "replies" \in DOMAIN response.items[i] }
ItemsWithoutReplies == (1..Len(response.items)) \ ItemsWithReplies

\* the one record of parsed tagged <<1, i, j>>, if it is the only one
OnlyRecord(i, j) ==
    LET ks == { k \in RecordsOf(i) : parsed[k].textDisplay[3] = j }
    IN  IF Cardinality(ks) = 1 THEN parsed[CHOOSE k \in ks : TRUE] ELSE None

\* what C5 and its amendment share: no record for the top-level comment,
\* one record per reply, with the reply's own id
RepliesOnly(i) ==
    LET res == response.items[i] IN
    /\ \A k \in RecordsOf(i) : parsed[k].textDisplay[3] # 0
    /\ Cardinality(RecordsOf(i)) = Len(res.replies.comments)
    /\ \A j \in 1..Len(res.replies.comments) :
          /\ OnlyRecord(i, j) # None
          /\ OnlyRecord(i, j).commentId = res.replies.comments[j].id

\* C5 as stated: a thread item with replies yields no record for its
\* top-level comment and one record per reply, with the reply's own id as
\* commentId and the thread's top-level comment id as parentId.
C5_ParentIsThread ==
    WasParsed =>
        \A i \in ItemsWithReplies :
            /\ RepliesOnly(i)
            /\ \A j \in 1..Len(response.items[i].replies.comments) :
                  OnlyRecord(i, j).parentId = response.items[i].snippet.topLevelComment.id

\* C5 amended: ... and, as parentId, the parentId of the reply's own snippet.
C5_ParentFromSnippet ==
    WasParsed =>
        \A i \in ItemsWithReplies :
            /\ RepliesOnly(i)
            /\ \A j \in 1..Len(response.items[i].replies.comments) :
                  OnlyRecord(i, j).parentId =
                      response.items[i].replies.comments[j].snippet.parentId

\* a thread with two replies was parsed, one reply naming another comment
\* than the thread's as its parent
C5_Witness ==
    /\ WasParsed
    /\ \E i \in ItemsWithReplies :
          LET res == response.items[i] IN
          /\ Len(res.replies.comments) = 2
          /\ res.replies.comments[1].snippet.parentId = res.snippet.topLevelComment.id
          /\ res.replies.comments[2].snippet.parentId # res.snippet.topLevelComment.id
          /\ Cardinality(RecordsOf(i)) = 2

\* C6: a thread item without replies yields exactly one record, with
\* parentId None and the id of the thread's top-level comment as commentId.
C6_TopLevelOnly ==
    WasParsed =>
        \A i \in ItemsWithoutReplies :
            /\ Cardinality(RecordsOf(i)) = 1
            /\ OnlyRecord(i, 0) # None
            /\ OnlyRecord(i, 0).parentId = None
            /\ OnlyRecord(i, 0).commentId = response.items[i].snippet.topLevelComment.id

\* two threads without replies were parsed, next to none with replies
C6_Witness ==
    /\ WasParsed
    /\ Cardinality(ItemsWithoutReplies) = 2
    /\ Len(parsed) = 2
    /\ parsed[1].commentId # parsed[2].commentId

----------------------------------------------------------------------------
(* Claims about get_sentiments *)

\* C1: a get_sentiments call that returns, returns one sentiment per
\* comment, and the sentiment at index i is that of comments[i].textDisplay,
\* in whatever order the analyze calls finished.
C1_OrderPreserved ==
    pc = "returned" =>
        /\ Len(sentiments) = Len(comments_limited)
        /\ \A i \in 1..Len(comments_limited) :
              sentiments[i] = get_sentiment(comments_limited[i].textDisplay)

\* get_sentiments returned for more comments than there are workers, after
\* some analyze call had finished before an earlier-submitted one
C1_Witness ==
    /\ pc = "returned"
    /\ overtaken
    /\ Len(sentiments) > MaxWorkers

\* C10: at no time are more than max_workers (5) analyze calls running.
C10_BoundedConcurrency == Cardinality(Running) <= MaxWorkers

\* five analyze calls are running while a sixth comment waits in the queue
C10_Witness ==
    /\ Cardinality(Running) = MaxWorkers
    /\ queue # << >>
    /\ fut[Head(queue)].state = "PENDING"

----------------------------------------------------------------------------
(* to_csv: what the claims speak of *)

\* to_csv has ended, by a return or by an exception
ExportEnded == pc \in {"exported", "export_raised"}

\* the output file was never opened: it is as it was before the call
Unopened == file \in {NoFile, OldFile}

TabsIn(text) == Cardinality({ k \in 1..Len(text) : text[k] = Tab })

RECURSIVE TabsInFields(_, _)
TabsInFields(line, n) ==
    IF n = 0 THEN 0 ELSE TabsInFields(line, n - 1) + TabsIn(line[n])

\* the number of columns a reader finds that splits the line on every tab
NaiveColumns(line) == Len(line) + TabsInFields(line, Len(line))

\* the line of comment c and sentiment s, as the file format states it
ExpectedLine(c, s, scored) ==
    << WriteField(Replace(c.textDisplay)), WriteField(c.parentId), WriteField(c.commentId) >>
    \o (IF scored THEN << Str(s.score), Str(s.magnitude) >> ELSE << >>)

----------------------------------------------------------------------------
\* C13: to_csv called with an empty comment list raises the ValueError of
\* its emptiness test and leaves the output file as it was (not created,
\* not opened, not truncated), with sentiments supplied or not.
C13_EmptyExport ==
    comments_limited = << >> =>
        /\ pc \in {"to_csv", "export_raised"}
        /\ Unopened
        /\ pc = "to_csv" => ENABLED RowsBuilt
        /\ pc = "export_raised" => error = "ValueError"

C13_Witness ==
    /\ pc = "export_raised"
    /\ comments_limited = << >>
    /\ has_sentiments
    /\ Len(sentiments) > 0
    /\ file = OldFile

\* C14, as claimed: the file to_csv returns from holds the header and one
\* line per comment in input order; the header is the Comment fields
\* followed by score and magnitude exactly when sentiments were supplied,
\* and line i carries comment i and, when supplied, sentiments[i].
C14_Schema ==
    pc = "exported" =>
        /\ Len(file.lines) = Len(comments_limited) + 1
        /\ file.lines[1] = Fields \o (IF has_sentiments THEN <<"score", "magnitude">>
                                                         ELSE << >>)
        /\ \A i \in 1..Len(comments_limited) :
              /\ has_sentiments => i <= Len(sentiments)
              /\ file.lines[i + 1] =
                   ExpectedLine(comments_limited[i],
                                IF has_sentiments THEN sentiments[i] ELSE None,
                                has_sentiments)

\* C15: to_csv ends either with the header and a line for every comment in
\* the file, or by an exception raised before the file was opened, for any
\* comments and sentiments, a too short sentiments list included.
C15_Atomic ==
    /\ pc = "exported" =>
          /\ file.exists
          /\ Len(file.lines) = Len(comments_limited) + 1
          /\ file.lines[1] = Keys(rows[1])
          /\ \A i \in 1..Len(comments_limited) :
                file.lines[i + 1][1] = WriteField(Replace(comments_limited[i].textDisplay))
    /\ pc = "export_raised" => Unopened
    /\ ExportEnded \/ ENABLED NextExport

C15_Witness ==
    /\ pc = "export_raised"
    /\ error = "IndexError"
    /\ Len(sentiments) > 0
    /\ Len(sentiments) < Len(comments_limited)
    /\ Len(rows) > 0

\* the written lines of the file to_csv returned from are tab-safe
C17_Written ==
    pc = "exported" =>
        \A i \in 1..Len(comments_limited) :
            LET c == comments_limited[i]
                line == file.lines[i + 1]
            IN  /\ TabsIn(line[1]) = 0
                /\ Len(line[1]) = Len(c.textDisplay)
                /\ \A k \in 1..Len(line[1]) :
                      line[1][k] = IF c.textDisplay[k] = Tab THEN Space ELSE c.textDisplay[k]
                /\ TabsIn(c.parentId) + TabsIn(c.commentId) = 0
                      => NaiveColumns(line) = Len(file.lines[1])

\* C17: no textDisplay written to the file holds a tab, each of its tabs
\* being written as one space; a line of a comment whose other fields hold
\* no tab splits on tab into as many columns as the header has; and the
\* comments passed to to_csv are never changed.
C17_DelimiterSafe ==
    /\ []C17_Written
    /\ [][comments_limited' = comments_limited]_vars

C17_Witness ==
    /\ pc = "exported"
    /\ \E i \in 1..Len(comments_limited) :
          /\ TabsIn(comments_limited[i].textDisplay) > 0
          /\ TabsIn(comments_limited[i].commentId) = 0
          /\ TabsIn(file.lines[i + 1][1]) = 0
    /\ \E i \in 1..Len(comments_limited) :
          /\ TabsIn(comments_limited[i].commentId) > 0
          /\ NaiveColumns(file.lines[i + 1]) > Len(file.lines[1])

----------------------------------------------------------------------------
\* C18: comment_threads has at most one page request outstanding; its first
\* request carries no page token; each later request carries the
\* nextPageToken of the response just before it, and is issued only after
\* that response was received and its comments were parsed and accumulated.
C18_CursorChained ==
    /\ Len(requests) - Len(responses) = (IF pc = "execute" THEN 1 ELSE 0)
    /\ requests # << >> => requests[1] = None
    /\ \A r \in 2..Len(requests) :
          /\ "nextPageToken" \in DOMAIN responses[r - 1]
          /\ requests[r] = responses[r - 1].nextPageToken
    /\ pc \in {"request", "execute"} => Len(comments) = EmittedUpTo(Len(responses))

C18_Witness ==
    /\ pc = "execute"
    /\ Len(requests) = 3
    /\ requests[3] = ChainToken(3)
    /\ Len(comments) > 0

\* C20: against a chain of well-formed pages comment_threads never issues
\* more requests than the chain has pages and is never stuck before it
\* returns, for every limit; when it returns without having accumulated a
\* positive limit's worth of comments (limit <= 0, or pages that emit too
\* few records), it has requested every page and the last response carries
\* no nextPageToken.
C20_FetchTerminates ==
    /\ Len(responses) <= Len(requests)
    /\ Len(requests) <= Len(chain)
    /\ pc = "fetched" \/ ENABLED NextChain
    /\ (pc = "fetched" /\ ~(limit > 0 /\ Len(comments) >= limit)) =>
          /\ Len(requests) = Len(chain)
          /\ "nextPageToken" \notin DOMAIN responses[Len(responses)]

C20_Witness ==
    /\ pc = "fetched"
    /\ Len(requests) = MaxChain
    /\ \/ limit <= 0 /\ Len(comments) > 0
       \/ limit > 0 /\ Len(comments) = 0

----------------------------------------------------------------------------
(* Claims about run *)

ExportPcs == {"to_csv", "open", "writeheader", "writerows", "exported", "export_raised"}

\* get_sentiments has been left, by its return or by an exception
EnrichLeft == pc \in {"returned", "raised"} \cup ExportPcs

\* the analyze call of some comment has raised
SomeCallFailed == \E i \in 1..Len(fut) : fut[i].failed

\* C11: once the analyze call of any comment has failed, get_sentiments
\* never returns a list: it ends by raising, sentiments stays unassigned,
\* run ends there, to_csv is never called and no file is written.
C11_AllOrNothing ==
    SomeCallFailed =>
        /\ pc \in {"map", "shutdown", "raised"}
        /\ pc = "shutdown" => raising \/ ~(fs = << >>)
        /\ sentiments = None /\ ~has_sentiments
        /\ rows = << >> /\ file = NoFile
        /\ pc = "raised" <=> ~ENABLED NextRun

\* get_sentiments raised although another call had succeeded and another
\* was cancelled
C11_Witness ==
    /\ pc = "raised"
    /\ collected # << >>
    /\ \E i \in 1..Len(fut) : fut[i].state = "CANCELLED"
    /\ file = NoFile

\* C12: from the moment get_sentiments returns or raises, no analyze call
\* is running and none is left to start (the work queue is empty and every
\* future is finished or cancelled); so none runs while to_csv executes.
C12_NoLeakedWork ==
    EnrichLeft =>
        /\ Running = {}
        /\ queue = << >>
        /\ \A i \in 1..Len(fut) : fut[i].state \in {"FINISHED", "CANCELLED"}
        /\ ~ENABLED Start
        /\ ~ENABLED (\E i \in 1..MaxComments, ok \in BOOLEAN : Finish(i, ok))

\* to_csv is writing rows after calls that ran concurrently
C12_Witness ==
    /\ pc = "writerows"
    /\ Len(fut) = MaxLimit
    /\ overtaken
    /\ nthreads = MaxLimit

\* thread item res has a comment the code reads that lacks textDisplay: a
\* reply of a thread with replies, the top-level comment of any other
ItemMalformed(res) ==
    IF "replies" \in DOMAIN res
    THEN \E j \in 1..Len(res.replies.comments) :
            "textDisplay" \notin DOMAIN res.replies.comments[j].snippet
    ELSE "textDisplay" \notin DOMAIN res.snippet.topLevelComment.snippet

FetchedMalformed ==
    \E r \in 1..Len(responses) : \E i \in 1..Len(responses[r].items) :
        ItemMalformed(responses[r].items[i])

\* C16: when a fetched page holds an item with a comment that lacks a
\* required field, comment_threads ends by the KeyError and returns nothing,
\* neither the records of earlier pages nor those of the page's other
\* items; run ends there: no analyze call, no export, no file.  It raises
\* in no other case.
C16_MalformedAborts ==
    /\ FetchedMalformed =>
          /\ pc = "fetch_raised"
          /\ error = "KeyError"
          /\ comments_limited = None
          /\ fut = << >> /\ sentiments = None
          /\ rows = << >> /\ file = NoFile
          /\ ~ENABLED NextRun
    /\ pc = "fetch_raised" => FetchedMalformed

\* the second page's second item is malformed, after well-formed ones that
\* had been accumulated and parsed
C16_Witness ==
    /\ pc = "fetch_raised"
    /\ Len(responses) = 2
    /\ Len(comments) > 0
    /\ Len(responses[2].items) = 2
    /\ ~ItemMalformed(responses[2].items[1])
    /\ ItemMalformed(responses[2].items[2])

\* C19: in run no analyze call exists before the fetch has returned, and
\* none at all unless include_sentiment is set; when the export starts
\* every comment's call has finished; and a run that ends with the export
\* has written one file: the header, then for each i the line of the i-th
\* fetched comment, with the sentiment of that comment's own textDisplay
\* when include_sentiment is set.
C19_Pipeline ==
    /\ fut # << >> => /\ include_sentiment
                      /\ pc \notin {"request", "execute", "fetched", "fetch_raised"}
    /\ ~include_sentiment => ~has_sentiments /\ sentiments = None
    /\ (pc \in ExportPcs /\ include_sentiment) =>
          /\ Len(fut) = Len(comments_limited)
          /\ \A i \in 1..Len(fut) : fut[i].state = "FINISHED" /\ ~fut[i].failed
    /\ pc = "exported" =>
          /\ file.exists
          /\ Len(file.lines) = Len(comments_limited) + 1
          /\ file.lines[1] = Fields \o (IF include_sentiment THEN <<"score", "magnitude">>
                                                               ELSE << >>)
          /\ Len(comments_limited) = Min(limit, Emitted)
          /\ \A i \in 1..Len(comments_limited) :
                /\ comments_limited[i].textDisplay \in EmittedTags
                /\ \A k \in 1..(i - 1) : LexLess(comments_limited[k].textDisplay,
                                                  comments_limited[i].textDisplay)
                /\ file.lines[i + 1] =
                     ExpectedLine(comments_limited[i],
                                  get_sentiment(comments_limited[i].textDisplay),
                                  include_sentiment)

\* a run with sentiments over two pages, whose calls overtook one another
C19_Witness ==
    /\ pc = "exported"
    /\ include_sentiment
    /\ Len(responses) = 2
    /\ Len(comments_limited) = MaxLimit
    /\ overtaken

====
